---- MODULE Spec2Model ----
(***************************************************************************)
(* The Rosetta account-balance pipeline of crates/aptos-rosetta/src/       *)
(* account.rs: get_balances, CoinCache::get_currency (with its RwLock),    *)
(* CoinCache::get_currency_inner and convert_balances_to_amounts, run by   *)
(* concurrent tasks against one shared CoinCache and a versioned ledger.   *)
(***************************************************************************)
EXTENDS Integers, Sequences, FiniteSets, TLC

\* ------------------------------------------------------------------ bounds
\* Tasks calling CoinCache::get_currency directly (CacheSpec).
NumTasks == 2
\* Tasks serving /account/balance requests (Spec); Clients is a subset of Tasks.
NumClients == 1
\* The ledger's head version.
MaxVersion == 2
\* The longest resource list an account read returns (FetchSpec).
MaxResources == 2

Tasks == 1..NumTasks
Clients == 1..NumClients
Versions == 1..MaxVersion

\* ------------------------------------------------------------ value types
\* TypeTag: the Struct variant carries a StructTag, every other variant is
\* represented by U64.
StructTag(a, m, n, tp) ==
    [kind |-> "Struct", address |-> a, module |-> m, name |-> n, type_params |-> tp]

U64Tag == [kind |-> "U64", address |-> 0, module |-> "", name |-> "", type_params |-> <<>>]

\* common::native_coin_tag(): the chain's default coin type.
native_coin_tag == StructTag(1, "TestCoin", "TestCoin", <<>>)

\* Currency { symbol, decimals, metadata: Option<CurrencyMetadata { move_type }> }
NoMetadata == [some |-> FALSE, move_type |-> <<>>]

SomeMetadata(mt) == [some |-> TRUE, move_type |-> mt]

Currency(sym, dec, md) == [symbol |-> sym, decimals |-> dec, metadata |-> md]

\* common::native_coin(): the hardcoded native Currency.
native_coin == Currency("TC", 6, NoMetadata)

\* Option<Currency>
NoCurrency == Currency("", 0, NoMetadata)

NoneCurrency == [some |-> FALSE, cur |-> NoCurrency]

SomeCurrency(c) == [some |-> TRUE, cur |-> c]

\* ApiResult<Option<Currency>>
OkCurrency(v) == [ok |-> TRUE, val |-> v, err |-> ""]

ErrCurrency(e) == [ok |-> FALSE, val |-> NoneCurrency, err |-> e]

\* Option<u64>, the version argument of get_currency
NoVersion == [some |-> FALSE, v |-> 0]

SomeVersion(n) == [some |-> TRUE, v |-> n]

\* ----------------------------------------------------------------- ledger
\* The coin types that occur on the modelled chain.
CoinA == StructTag(2, "CoinA", "A", <<>>)

CoinB == StructTag(3, "CoinB", "B", <<>>)

CoinG == StructTag(2, "Pool", "LP", <<U64Tag>>)

CoinTypes == {native_coin_tag, CoinA, CoinB, CoinG, U64Tag}

\* The payload of the 0x1::Coin::CoinInfo<coin> resource at version v.
\* CoinA is initialised at version 2 (absent before), CoinB's payload does not
\* deserialize as CoinInfo, the native coin exists from genesis.
Descriptor(p, ok, sym, dec) == [present |-> p, parses |-> ok, symbol |-> sym, decimals |-> dec]

AbsentDescriptor == Descriptor(FALSE, FALSE, "", 0)

CoinInfoAt(c, v) ==
    IF c = native_coin_tag THEN Descriptor(TRUE, TRUE, "TC", 6)
    ELSE IF c = CoinA /\ v >= 2 THEN Descriptor(TRUE, TRUE, "TC", 6)
    ELSE IF c = CoinB THEN Descriptor(TRUE, FALSE, "", 0)
    ELSE AbsentDescriptor

\* The answer of a descriptor read: a transport failure, or Response<Option<Resource>>.
DescriptorFailure == [ok |-> FALSE, inner |-> AbsentDescriptor]

DescriptorResponse(d) == [ok |-> TRUE, inner |-> d]

\* get_account_resource_at_version reads at the given version,
\* get_account_resource at the ledger head.
DescriptorAnswers(c, ver) ==
    {DescriptorFailure,
     DescriptorResponse(CoinInfoAt(c, IF ver.some THEN ver.v ELSE MaxVersion))}

\* ------------------------------------------------- CoinCache: pure parts
\* coin == native_coin_tag()
\* Faulty variant: the short circuit is missing.
IsNativeNever(c) == FALSE

IsNative(c) == c = native_coin_tag

\* The match on TypeTag::Struct and the type_params.is_empty() check: TRUE when
\* get_currency_inner goes on to read the descriptor.
\* Faulty variant: the type_params.is_empty() check is missing.
IsPlainStructIgnoringParams(c) == c.kind = "Struct"

IsPlainStruct(c) == c.kind = "Struct" /\ c.type_params = <<>>

\* format!("0x1::Coin::CoinInfo<{}>", struct_tag)
resource_tag(c) == <<"0x1::Coin::CoinInfo", c.address, c.module, c.name>>

\* The Currency built from a parsed CoinInfo.
\* Faulty variant: the Currency is built with metadata: None.
CurrencyOfNoMetadata(c, d) == Currency(d.symbol, d.decimals, NoMetadata)

CurrencyOf(c, d) == Currency(d.symbol, d.decimals, SomeMetadata(resource_tag(c)))

\* What get_currency_inner makes of the descriptor read's answer.
\* Faulty variant: an absent or unparsable descriptor is skipped as None.
InnerResultSwallowing(c, ans) ==
    IF ~ans.ok THEN ErrCurrency("remote")
    ELSE IF ans.inner.present /\ ans.inner.parses
         THEN OkCurrency(SomeCurrency(CurrencyOf(c, ans.inner)))
         ELSE OkCurrency(NoneCurrency)

InnerResult(c, ans) ==
    IF ~ans.ok THEN ErrCurrency("remote")
    ELSE IF ans.inner.present
         THEN IF ans.inner.parses
              THEN OkCurrency(SomeCurrency(CurrencyOf(c, ans.inner)))
              ELSE ErrCurrency("CoinInfo failed to deserialize")
         ELSE ErrCurrency("Currency not found")

\* HashMap::insert on the currencies map.
MapInsert(m, k, v) == [x \in (DOMAIN m) \cup {k} |-> IF x = k THEN v ELSE m[x]]

EmptyMap == [x \in {} |-> NoneCurrency]

\* ------------------------------------------------- get_balances: pure parts
\* A MoveResource of the account: its StructTag and its JSON payload, which
\* either deserializes as Balance { coin: TestCoin { value } } or does not.
Resource(a, m, n, tp, ok, val) ==
    [resource_type |-> [address |-> a, module |-> m, name |-> n, type_params |-> tp],
     data |-> [parses |-> ok, value |-> val]]

CoinStore(tp, val) == Resource(1, "Coin", "CoinStore", tp, TRUE, val)

\* The answer of the account-resources read: Err(kind) or Ok(list).
ResourcesFailure(kind) == [ok |-> FALSE, error |-> kind, inner |-> <<>>]

ResourcesResponse(list) == [ok |-> TRUE, error |-> "", inner |-> list]

\* The first .filter closure: the coin-store path 0x1::Coin::CoinStore.
\* Faulty variant: the address of the resource type is not compared.
IsCoinStoreAnyAddress(r) ==
    /\ r.resource_type.module = "Coin"
    /\ r.resource_type.name = "CoinStore"

IsCoinStore(r) ==
    /\ r.resource_type.address = 1
    /\ r.resource_type.module = "Coin"
    /\ r.resource_type.name = "CoinStore"

\* The .filter_map closure: Some((coin_type, balance)) or None.
NoEntry == [some |-> FALSE, coin_type |-> U64Tag, value |-> 0]

BalanceEntry(r) ==
    IF Len(r.resource_type.type_params) > 0
    THEN IF r.data.parses
         THEN [some |-> TRUE, coin_type |-> r.resource_type.type_params[1],
               value |-> r.data.value]
         ELSE NoEntry
    ELSE NoEntry

\* HashMap<TypeTag, Balance>
NoBalances == [x \in {} |-> 0]

\* .collect() into the HashMap: entries are inserted in list order, a later
\* entry of the same key replaces the earlier one.
RECURSIVE Collect(_)
Collect(list) ==
    IF Len(list) = 0 THEN NoBalances
    ELSE LET r == list[Len(list)]
             m == Collect(SubSeq(list, 1, Len(list) - 1))
             e == BalanceEntry(r)
         IN IF IsCoinStore(r) /\ e.some THEN MapInsert(m, e.coin_type, e.value) ELSE m

\* ApiResult<HashMap<TypeTag, Balance>>
OkBalances(m) == [ok |-> TRUE, val |-> m]

ErrBalances == [ok |-> FALSE, val |-> NoBalances]

\* The else branch: the native coin with value 0.
NativeZero == [x \in {native_coin_tag} |-> 0]

\* Faulty variant: the read's error is propagated with `?`.
get_balances_propagating(ans) ==
    IF ans.ok THEN OkBalances(Collect(ans.inner)) ELSE ErrBalances

\* Faulty variant: a payload that fails to parse fails the collect with `?`.
get_balances_strict(ans) ==
    IF ans.ok
    THEN IF \E i \in DOMAIN ans.inner : IsCoinStore(ans.inner[i]) /\ ~ans.inner[i].data.parses
         THEN ErrBalances
         ELSE OkBalances(Collect(ans.inner))
    ELSE OkBalances(NativeZero)

get_balances(ans) ==
    IF ans.ok THEN OkBalances(Collect(ans.inner)) ELSE OkBalances(NativeZero)

\* ------------------------------------ convert_balances_to_amounts: pure parts
\* u64::to_string(): the decimal digits, most significant first.
Digit(d) == <<"0", "1", "2", "3", "4", "5", "6", "7", "8", "9">>[d + 1]

\* Faulty variant: a digit loop that emits nothing for 0.
RECURSIVE to_string_loop(_)
to_string_loop(n) == IF n = 0 THEN <<>> ELSE to_string_loop(n \div 10) \o <<Digit(n % 10)>>

RECURSIVE to_string(_)
to_string(n) == IF n < 10 THEN <<Digit(n)>> ELSE to_string(n \div 10) \o <<Digit(n % 10)>>

Amount(val, cur) == [value |-> val, currency |-> cur]

\* Option<Vec<Currency>>
NoFilter == [some |-> FALSE, list |-> <<>>]

SomeFilter(list) == [some |-> TRUE, list |-> list]

\* ApiResult<Vec<Amount>>
OkAmounts(list) == [ok |-> TRUE, val |-> list, err |-> ""]

ErrAmounts(e) == [ok |-> FALSE, val |-> <<>>, err |-> e]

Range(f) == {f[i] : i \in DOMAIN f}

\* The sequences that enumerate the set S once each (a HashSet's iteration order).
Orders(S) ==
    {f \in [1..Cardinality(S) -> S] : \A i, j \in 1..Cardinality(S) : f[i] = f[j] => i = j}

\* amounts.into_iter().filter(|amount| currencies.contains(&amount.currency))
Requested(amounts, currencies) ==
    SelectSeq(amounts, LAMBDA a : a.currency \in currencies)

\* for amount in amounts.iter() { currencies.remove(&amount.currency); }
\* Faulty variant: the held currencies are not removed before the zero fill.
NotHeldKeepingAll(kept, currencies) == currencies

NotHeld(kept, currencies) == currencies \ {kept[i].currency : i \in DOMAIN kept}

\* The tail of convert_balances_to_amounts: every list it can return, one per
\* iteration order of the HashSet of currencies left to zero out.
Projected(amounts, filter) ==
    IF filter.some
    THEN LET currencies == Range(filter.list)
             kept == Requested(amounts, currencies)
         IN {kept \o [i \in DOMAIN z |-> Amount(to_string(0), z[i])] :
                 z \in Orders(NotHeld(kept, currencies))}
    ELSE {amounts}

\* ------------------------------------------------- the ledger's accounts
CurrencyA == CurrencyOf(CoinA, CoinInfoAt(CoinA, MaxVersion))

CurrencyX == Currency("XC", 2, NoMetadata)

Addresses == {16, 17, 18, 19}

\* An account that holds the native coin beside an unsupported coin type.
MixedAddress == 20

\* The resources of account a at version v. 16 holds the native coin and
\* CoinA (registered before CoinA's descriptor exists), 17 holds two
\* unsupported coin types, 18 holds CoinB, 19 is unknown at
\* version 1 and has no resources afterwards, 20 holds the native coin beside
\* an unsupported coin type.
ResourcesAt(a, v) ==
    IF a = 16 THEN <<CoinStore(<<native_coin_tag>>, 5), CoinStore(<<CoinA>>, 10)>>
    ELSE IF a = 17 THEN <<CoinStore(<<CoinG>>, 7), CoinStore(<<U64Tag>>, 3)>>
    ELSE IF a = 18 THEN <<CoinStore(<<CoinB>>, 1), CoinStore(<<native_coin_tag>>, 5)>>
    ELSE IF a = MixedAddress THEN <<CoinStore(<<U64Tag>>, 3), CoinStore(<<native_coin_tag>>, 12)>>
    ELSE <<>>

KnownAt(a, v) == a # 19 \/ v >= 2

\* What get_account_resources_at_version can answer: the account's resources
\* or not-found, and a transport failure in either case.
ResourcesAnswers(a, v) ==
    {ResourcesFailure("Unavailable"),
     IF KnownAt(a, v) THEN ResourcesResponse(ResourcesAt(a, v)) ELSE ResourcesFailure("NotFound")}

\* AccountBalanceRequest, after the block is resolved: the account, the
\* block's end_version and the requested currencies.
Filters ==
    {NoFilter, SomeFilter(<<native_coin>>), SomeFilter(<<CurrencyA, CurrencyX, CurrencyA>>)}

Request(a, v, f) == [active |-> TRUE, address |-> a, balance_version |-> v, currencies |-> f]

NoRequest == [active |-> FALSE, address |-> 0, balance_version |-> 0, currencies |-> NoFilter]

Requests == {Request(a, v, f) : a \in Addresses, v \in Versions, f \in Filters}

\* ------------------------------------------------------------------ state
VARIABLES
    currencies,     \* CoinCache.currencies: HashMap<TypeTag, Option<Currency>>
    readers,        \* tasks holding the RwLock's read guard
    writer,         \* the task holding the write guard, or 0
    pc,             \* each task's position
    coin,           \* get_currency's coin argument
    version,        \* the version argument of get_balances, then of get_currency
    currency,       \* get_currency's local `currency`
    result,         \* get_currency's return value
    req,            \* account_balance's request
    resp,           \* the answer of the account-resources read
    balances,       \* account_balance's `balances`
    todo,           \* the keys of `balances` the for loop has not visited
    amounts,        \* convert_balances_to_amounts' `amounts`
    response,       \* account_balance's return value (its balances)
    reads,          \* observation: descriptor reads the current call has issued
    startedCached   \* observation: the key was in the map when the call started

lockVars == <<readers, writer>>

callVars == <<coin, version, reads, startedCached>>

reqVars == <<req, resp, balances, todo>>

vars == <<currencies, readers, writer, pc, coin, version, currency, result,
          req, resp, balances, todo, amounts, response, reads, startedCached>>

Init ==
    /\ currencies = EmptyMap
    /\ readers = {}
    /\ writer = 0
    /\ pc = [t \in Tasks |-> "idle"]
    /\ coin = [t \in Tasks |-> native_coin_tag]
    /\ version = [t \in Tasks |-> NoVersion]
    /\ currency = [t \in Tasks |-> NoneCurrency]
    /\ result = [t \in Tasks |-> OkCurrency(NoneCurrency)]
    /\ req = [t \in Tasks |-> NoRequest]
    /\ resp = [t \in Tasks |-> ResourcesResponse(<<>>)]
    /\ balances = [t \in Tasks |-> NoBalances]
    /\ todo = [t \in Tasks |-> {}]
    /\ amounts = [t \in Tasks |-> <<>>]
    /\ response = [t \in Tasks |-> OkAmounts(<<>>)]
    /\ reads = [t \in Tasks |-> 0]
    /\ startedCached = [t \in Tasks |-> FALSE]

\* get_currency goes on to `next` without returning.
Goto(t, next) ==
    /\ pc' = [pc EXCEPT ![t] = next]
    /\ UNCHANGED <<result, amounts, response>>

\* get_currency(c, _) returns `res`. A direct caller holds the result; in
\* convert_balances_to_amounts `?` ends the request on an error, Some(currency)
\* pushes an Amount and None pushes nothing, and the loop goes on.
\* Faulty variant: a coin that resolved to None is pushed in the native currency.
ReturnNoneAsNative(t, c, res) ==
    /\ result' = [result EXCEPT ![t] = res]
    /\ IF req[t].active
       THEN IF res.ok
            THEN /\ amounts' = [amounts EXCEPT ![t] =
                        Append(@, Amount(to_string(balances[t][c]),
                                         IF res.val.some THEN res.val.cur ELSE native_coin))]
                 /\ pc' = [pc EXCEPT ![t] = "ab_loop"]
                 /\ UNCHANGED response
            ELSE /\ response' = [response EXCEPT ![t] = ErrAmounts(res.err)]
                 /\ pc' = [pc EXCEPT ![t] = "ab_done"]
                 /\ UNCHANGED amounts
       ELSE /\ pc' = [pc EXCEPT ![t] = "gc_ret"]
            /\ UNCHANGED <<amounts, response>>

Return(t, c, res) ==
    /\ result' = [result EXCEPT ![t] = res]
    /\ IF req[t].active
       THEN IF res.ok
            THEN /\ amounts' = [amounts EXCEPT ![t] =
                        IF res.val.some
                        THEN Append(@, Amount(to_string(balances[t][c]), res.val.cur))
                        ELSE @]
                 /\ pc' = [pc EXCEPT ![t] = "ab_loop"]
                 /\ UNCHANGED response
            ELSE /\ response' = [response EXCEPT ![t] = ErrAmounts(res.err)]
                 /\ pc' = [pc EXCEPT ![t] = "ab_done"]
                 /\ UNCHANGED amounts
       ELSE /\ pc' = [pc EXCEPT ![t] = "gc_ret"]
            /\ UNCHANGED <<amounts, response>>

\* get_currency is entered with (c, ver): the native short circuit, else on to
\* the read lock.
Enter(t, c, ver) ==
    /\ coin' = [coin EXCEPT ![t] = c]
    /\ version' = [version EXCEPT ![t] = ver]
    /\ reads' = [reads EXCEPT ![t] = 0]
    /\ startedCached' = [startedCached EXCEPT ![t] = c \in DOMAIN currencies]
    /\ IF IsNative(c)
       THEN Return(t, c, OkCurrency(SomeCurrency(native_coin)))
       ELSE Goto(t, "gc_read")

\* The version arguments of direct calls: none (the ledger head is read), the
\* oldest version, the head version.
CallVersions == {NoVersion, SomeVersion(1), SomeVersion(MaxVersion)}

\* A task calls get_currency(coin, version).
StartCall(t) ==
    /\ pc[t] = "idle"
    /\ \E c \in CoinTypes, ver \in CallVersions : Enter(t, c, ver)
    /\ UNCHANGED <<currencies, lockVars, currency, reqVars>>

\* The coin types of the calls that can be abandoned: the parameterless struct
\* types that reach the descriptor read, and one unsupported type.
AwaitingCoinTypes == {CoinA, CoinB, CoinG}

\* A task calls get_currency(coin, version) on one of these types.
StartAwaitingCall(t) ==
    /\ pc[t] = "idle"
    /\ \E c \in AwaitingCoinTypes, ver \in CallVersions : Enter(t, c, ver)
    /\ UNCHANGED <<currencies, lockVars, currency, reqVars>>

\* The calls whose progress is followed: on a parameterless struct type and
\* on an unsupported type, at the oldest and at the head version.
ContendedCoinTypes == {CoinA, CoinG}

StartContendedCall(t) ==
    /\ pc[t] = "idle"
    /\ \E c \in ContendedCoinTypes, ver \in {SomeVersion(1), SomeVersion(MaxVersion)} :
          Enter(t, c, ver)
    /\ UNCHANGED <<currencies, lockVars, currency, reqVars>>

\* self.currencies.read().unwrap()
AcquireRead(t) ==
    /\ pc[t] = "gc_read"
    /\ writer = 0
    /\ readers' = readers \cup {t}
    /\ Goto(t, "gc_lookup")
    /\ UNCHANGED <<currencies, writer, currency, callVars, reqVars>>

\* get_currency_inner up to its await, entered after a miss: an unsupported
\* type resolves to None at once, a parameterless struct type issues the
\* descriptor read.
InnerStart(t) ==
    IF IsPlainStruct(coin[t])
    THEN /\ reads' = [reads EXCEPT ![t] = @ + 1]
         /\ Goto(t, "gc_await")
         /\ UNCHANGED currency
    ELSE /\ currency' = [currency EXCEPT ![t] = NoneCurrency]
         /\ Goto(t, "gc_write")
         /\ UNCHANGED reads

\* currencies.get(&coin) under the read guard; the guard is dropped on return
\* and at the end of the block, before get_currency_inner is called.
\* Faulty variant: on a miss the read guard stays alive across get_currency_inner.
LookupKeepGuard(t) ==
    /\ pc[t] = "gc_lookup"
    /\ IF coin[t] \in DOMAIN currencies
       THEN /\ Return(t, coin[t], OkCurrency(currencies[coin[t]]))
            /\ readers' = readers \ {t}
            /\ UNCHANGED <<currency, reads>>
       ELSE /\ InnerStart(t)
            /\ UNCHANGED readers
    /\ UNCHANGED <<currencies, writer, coin, version, startedCached, reqVars>>

\* Faulty variant: the lookup's result is ignored.
LookupAlwaysMiss(t) ==
    /\ pc[t] = "gc_lookup"
    /\ readers' = readers \ {t}
    /\ InnerStart(t)
    /\ UNCHANGED <<currencies, writer, coin, version, startedCached, reqVars>>

\* Faulty variant: a miss reserves the key with a placeholder before the await.
LookupReserving(t) ==
    /\ pc[t] = "gc_lookup"
    /\ readers' = readers \ {t}
    /\ IF coin[t] \in DOMAIN currencies
       THEN /\ Return(t, coin[t], OkCurrency(currencies[coin[t]]))
            /\ UNCHANGED <<currencies, currency, reads>>
       ELSE /\ InnerStart(t)
            /\ currencies' = MapInsert(currencies, coin[t], NoneCurrency)
    /\ UNCHANGED <<writer, coin, version, startedCached, reqVars>>

Lookup(t) ==
    /\ pc[t] = "gc_lookup"
    /\ readers' = readers \ {t}
    /\ IF coin[t] \in DOMAIN currencies
       THEN /\ Return(t, coin[t], OkCurrency(currencies[coin[t]]))
            /\ UNCHANGED <<currency, reads>>
       ELSE InnerStart(t)
    /\ UNCHANGED <<currencies, writer, coin, version, startedCached, reqVars>>

\* The descriptor read returns; `?` propagates an error out of get_currency.
\* Faulty variant: a failed resolution is cached as None before the error is returned.
InnerReturnCachingFailure(t) ==
    /\ pc[t] = "gc_await"
    /\ \E ans \in DescriptorAnswers(coin[t], version[t]) :
          LET r == InnerResult(coin[t], ans) IN
          IF r.ok
          THEN /\ currency' = [currency EXCEPT ![t] = r.val]
               /\ Goto(t, "gc_write")
               /\ UNCHANGED currencies
          ELSE /\ Return(t, coin[t], r)
               /\ currencies' = MapInsert(currencies, coin[t], NoneCurrency)
               /\ UNCHANGED currency
    /\ UNCHANGED <<lockVars, callVars, reqVars>>

InnerReturn(t) ==
    /\ pc[t] = "gc_await"
    /\ \E ans \in DescriptorAnswers(coin[t], version[t]) :
          LET r == InnerResult(coin[t], ans) IN
          IF r.ok
          THEN /\ currency' = [currency EXCEPT ![t] = r.val]
               /\ Goto(t, "gc_write")
          ELSE /\ Return(t, coin[t], r)
               /\ UNCHANGED currency
    /\ UNCHANGED <<currencies, lockVars, callVars, reqVars>>

\* self.currencies.write().unwrap()
AcquireWrite(t) ==
    /\ pc[t] = "gc_write"
    /\ writer = 0
    /\ readers = {}
    /\ writer' = t
    /\ Goto(t, "gc_insert")
    /\ UNCHANGED <<currencies, readers, currency, callVars, reqVars>>

\* .insert(coin, currency.clone()); the guard is dropped; Ok(currency)
\* Faulty variant: the value insert() returns, the previous entry, is returned.
InsertReturningOld(t) ==
    /\ pc[t] = "gc_insert"
    /\ currencies' = MapInsert(currencies, coin[t], currency[t])
    /\ writer' = 0
    /\ Return(t, coin[t], OkCurrency(IF coin[t] \in DOMAIN currencies
                            THEN currencies[coin[t]] ELSE NoneCurrency))
    /\ UNCHANGED <<readers, currency, callVars, reqVars>>

Insert(t) ==
    /\ pc[t] = "gc_insert"
    /\ currencies' = MapInsert(currencies, coin[t], currency[t])
    /\ writer' = 0
    /\ Return(t, coin[t], OkCurrency(currency[t]))
    /\ UNCHANGED <<readers, currency, callVars, reqVars>>

\* The task's locals, dropped when its call or request is over.
Reset(t) ==
    /\ pc' = [pc EXCEPT ![t] = "idle"]
    /\ coin' = [coin EXCEPT ![t] = native_coin_tag]
    /\ version' = [version EXCEPT ![t] = NoVersion]
    /\ currency' = [currency EXCEPT ![t] = NoneCurrency]
    /\ result' = [result EXCEPT ![t] = OkCurrency(NoneCurrency)]
    /\ req' = [req EXCEPT ![t] = NoRequest]
    /\ resp' = [resp EXCEPT ![t] = ResourcesResponse(<<>>)]
    /\ balances' = [balances EXCEPT ![t] = NoBalances]
    /\ todo' = [todo EXCEPT ![t] = {}]
    /\ amounts' = [amounts EXCEPT ![t] = <<>>]
    /\ response' = [response EXCEPT ![t] = OkAmounts(<<>>)]
    /\ reads' = [reads EXCEPT ![t] = 0]
    /\ startedCached' = [startedCached EXCEPT ![t] = FALSE]
    /\ UNCHANGED <<currencies, lockVars>>

\* The direct caller drops the result; the task is free for another call.
Finish(t) ==
    /\ pc[t] = "gc_ret"
    /\ Reset(t)

\* The caller drops the get_currency future while it is suspended at
\* get_currency_inner(...).await: the call never resumes. The future holds no
\* guard there; its locals are released by Dropped.
Abandon(t) ==
    /\ pc[t] = "gc_await"
    /\ pc' = [pc EXCEPT ![t] = "gc_dropped"]
    /\ UNCHANGED <<currencies, lockVars, currency, result, callVars, reqVars,
                   amounts, response>>

\* The dropped future is gone; the task is free for another call.
Dropped(t) ==
    /\ pc[t] = "gc_dropped"
    /\ Reset(t)

\* ------------------------------------------------------- account_balance
\* A request arrives; get_balances(rest_client, address, balance_version)
\* issues the account-resources read at its version argument.
StartRequest(t) ==
    /\ pc[t] = "idle"
    /\ \E r \in Requests :
          /\ req' = [req EXCEPT ![t] = r]
          /\ version' = [version EXCEPT ![t] = SomeVersion(r.balance_version)]
    /\ pc' = [pc EXCEPT ![t] = "ab_fetch"]
    /\ UNCHANGED <<currencies, lockVars, coin, currency, result, resp, balances,
                   todo, amounts, response, reads, startedCached>>

\* Requests that repeat one (address, filter) pair at the ledger's versions.
RepeatedRequests == {Request(16, v, NoFilter) : v \in Versions}

\* A request of that kind arrives.
StartRepeatedRequest(t) ==
    /\ pc[t] = "idle"
    /\ \E r \in RepeatedRequests :
          /\ req' = [req EXCEPT ![t] = r]
          /\ version' = [version EXCEPT ![t] = SomeVersion(r.balance_version)]
    /\ pc' = [pc EXCEPT ![t] = "ab_fetch"]
    /\ UNCHANGED <<currencies, lockVars, coin, currency, result, resp, balances,
                   todo, amounts, response, reads, startedCached>>

\* Requests without a currency filter, for every account at every version.
UnfilteredRequests ==
    {Request(a, v, NoFilter) : a \in Addresses \cup {MixedAddress}, v \in Versions}

\* A request of that kind arrives.
StartUnfilteredRequest(t) ==
    /\ pc[t] = "idle"
    /\ \E r \in UnfilteredRequests :
          /\ req' = [req EXCEPT ![t] = r]
          /\ version' = [version EXCEPT ![t] = SomeVersion(r.balance_version)]
    /\ pc' = [pc EXCEPT ![t] = "ab_fetch"]
    /\ UNCHANGED <<currencies, lockVars, coin, currency, result, resp, balances,
                   todo, amounts, response, reads, startedCached>>

\* The ledger answers the account-resources read.
ResourcesReturn(t) ==
    /\ pc[t] = "ab_fetch"
    /\ \E ans \in ResourcesAnswers(req[t].address, version[t].v) :
          resp' = [resp EXCEPT ![t] = ans]
    /\ pc' = [pc EXCEPT ![t] = "ab_fetched"]
    /\ UNCHANGED <<currencies, lockVars, coin, version, currency, result, req, balances,
                   todo, amounts, response, reads, startedCached>>

\* get_balances maps the answer to `balances`; account_balance's `?` would
\* end the request on an error.
GetBalances(t) ==
    /\ pc[t] = "ab_fetched"
    /\ LET r == get_balances(resp[t]) IN
       IF r.ok
       THEN /\ balances' = [balances EXCEPT ![t] = r.val]
            /\ todo' = [todo EXCEPT ![t] = DOMAIN r.val]
            /\ pc' = [pc EXCEPT ![t] = "ab_loop"]
            /\ UNCHANGED response
       ELSE /\ response' = [response EXCEPT ![t] = ErrAmounts("get_balances")]
            /\ pc' = [pc EXCEPT ![t] = "ab_done"]
            /\ UNCHANGED <<balances, todo>>
    /\ UNCHANGED <<currencies, lockVars, coin, version, currency, result, req, resp,
                   amounts, reads, startedCached>>

\* for (coin, balance) in balances: the HashMap yields its entries in any
\* order; get_currency(rest_client, coin, Some(balance_version)) is called.
\* Faulty variant: get_currency is called with None, which reads at the head.
NextCoinAtLatest(t) ==
    /\ pc[t] = "ab_loop"
    /\ \E c \in todo[t] :
          /\ todo' = [todo EXCEPT ![t] = @ \ {c}]
          /\ Enter(t, c, NoVersion)
    /\ UNCHANGED <<currencies, lockVars, currency, req, resp, balances>>

NextCoin(t) ==
    /\ pc[t] = "ab_loop"
    /\ \E c \in todo[t] :
          /\ todo' = [todo EXCEPT ![t] = @ \ {c}]
          /\ Enter(t, c, SomeVersion(req[t].balance_version))
    /\ UNCHANGED <<currencies, lockVars, currency, req, resp, balances>>

\* The loop is over: the filter is applied and Ok(amounts) returned.
Project(t) ==
    /\ pc[t] = "ab_loop"
    /\ todo[t] = {}
    /\ \E out \in Projected(amounts[t], req[t].currencies) :
          response' = [response EXCEPT ![t] = OkAmounts(out)]
    /\ pc' = [pc EXCEPT ![t] = "ab_done"]
    /\ UNCHANGED <<currencies, lockVars, coin, version, currency, result, req, resp,
                   balances, todo, amounts, reads, startedCached>>

\* The response is sent; the task is free for another request.
FinishRequest(t) ==
    /\ pc[t] = "ab_done"
    /\ Reset(t)

\* ------------------------------------------------------- specifications
Next ==
    \E t \in Clients :
        \/ StartRequest(t)
        \/ ResourcesReturn(t)
        \/ GetBalances(t)
        \/ NextCoin(t)
        \/ AcquireRead(t)
        \/ Lookup(t)
        \/ InnerReturn(t)
        \/ AcquireWrite(t)
        \/ Insert(t)
        \/ Project(t)
        \/ FinishRequest(t)

\* Clients serving /account/balance requests over the shared CoinCache.
Spec == Init /\ [][Next]_vars

CacheNext ==
    \E t \in Tasks :
        \/ StartCall(t)
        \/ AcquireRead(t)
        \/ Lookup(t)
        \/ InnerReturn(t)
        \/ AcquireWrite(t)
        \/ Insert(t)
        \/ Finish(t)

\* Tasks calling CoinCache::get_currency directly, with any version argument.
CacheSpec == Init /\ [][CacheNext]_vars

CancelNext ==
    \E t \in Tasks :
        \/ StartAwaitingCall(t)
        \/ AcquireRead(t)
        \/ Lookup(t)
        \/ InnerReturn(t)
        \/ Abandon(t)
        \/ Dropped(t)
        \/ AcquireWrite(t)
        \/ Insert(t)
        \/ Finish(t)

\* Direct get_currency calls whose callers may drop them at the await.
CancelSpec == Init /\ [][CancelNext]_vars

RepeatNext ==
    \E t \in Tasks :
        \/ StartRepeatedRequest(t)
        \/ ResourcesReturn(t)
        \/ GetBalances(t)
        \/ NextCoin(t)
        \/ AcquireRead(t)
        \/ Lookup(t)
        \/ InnerReturn(t)
        \/ AcquireWrite(t)
        \/ Insert(t)
        \/ Project(t)
        \/ FinishRequest(t)

\* Tasks that serve the same request again and again, one after the other and
\* side by side, over the shared CoinCache.
RepeatSpec == Init /\ [][RepeatNext]_vars

UnfilteredNext ==
    \E t \in Clients :
        \/ StartUnfilteredRequest(t)
        \/ ResourcesReturn(t)
        \/ GetBalances(t)
        \/ NextCoin(t)
        \/ AcquireRead(t)
        \/ Lookup(t)
        \/ InnerReturn(t)
        \/ AcquireWrite(t)
        \/ Insert(t)
        \/ Project(t)
        \/ FinishRequest(t)

\* Clients serving requests that name no currencies.
UnfilteredSpec == Init /\ [][UnfilteredNext]_vars

ContendedNext ==
    \E t \in Tasks :
        \/ StartContendedCall(t)
        \/ AcquireRead(t)
        \/ Lookup(t)
        \/ InnerReturn(t)
        \/ AcquireWrite(t)
        \/ Insert(t)

\* What fair scheduling and the ledger grant each task: a task that can run
\* does run, a task waiting for the RwLock takes it once it stays free, and
\* a descriptor read in flight returns.
Fairness ==
    \A t \in Tasks :
        /\ WF_vars(AcquireRead(t))
        /\ WF_vars(Lookup(t))
        /\ WF_vars(InnerReturn(t))
        /\ WF_vars(AcquireWrite(t))
        /\ WF_vars(Insert(t))

\* A set of concurrent get_currency calls, one per task, under fair
\* scheduling; a task makes no second call.
ContendedSpec == Init /\ [][ContendedNext]_vars /\ Fairness

\* The resources account reads can return: every list of at most MaxResources
\* resources of these shapes, or a failure.
ResourcePool ==
    {Resource(p[1], p[2], p[3], tp, d[1], d[2]) :
        p \in {<<1, "Coin", "CoinStore">>, <<2, "Coin", "CoinStore">>,
               <<1, "Account", "CoinStore">>, <<1, "Coin", "CoinInfo">>},
        tp \in {<<>>, <<CoinA>>, <<native_coin_tag>>, <<CoinA, native_coin_tag>>,
                <<CoinG, CoinA>>},
        d \in {<<FALSE, 0>>, <<TRUE, 0>>, <<TRUE, 10>>}}

ResourceLists == UNION {[1..k -> ResourcePool] : k \in 0..MaxResources}

AnyAnswers ==
    {ResourcesFailure("NotFound"), ResourcesFailure("Unavailable")}
        \cup {ResourcesResponse(l) : l \in ResourceLists}

FetchInit ==
    /\ currencies = EmptyMap
    /\ readers = {}
    /\ writer = 0
    /\ pc = [t \in Tasks |-> IF t = 1 THEN "ab_fetched" ELSE "idle"]
    /\ coin = [t \in Tasks |-> native_coin_tag]
    /\ version = [t \in Tasks |-> NoVersion]
    /\ currency = [t \in Tasks |-> NoneCurrency]
    /\ result = [t \in Tasks |-> OkCurrency(NoneCurrency)]
    /\ req = [t \in Tasks |-> IF t = 1 THEN Request(16, 1, NoFilter) ELSE NoRequest]
    /\ \E ans \in AnyAnswers :
          resp = [t \in Tasks |-> IF t = 1 THEN ans ELSE ResourcesResponse(<<>>)]
    /\ balances = [t \in Tasks |-> NoBalances]
    /\ todo = [t \in Tasks |-> {}]
    /\ amounts = [t \in Tasks |-> <<>>]
    /\ response = [t \in Tasks |-> OkAmounts(<<>>)]
    /\ reads = [t \in Tasks |-> 0]
    /\ startedCached = [t \in Tasks |-> FALSE]

FetchNext == \E t \in Tasks : GetBalances(t)

\* get_balances applied to every answer the account-resources read can give.
FetchSpec == FetchInit /\ [][FetchNext]_vars

\* ----------------------------------------------------------------- claims
\* The properties below name coin types and paths by their structure, not
\* through the operators that model the code's own tests.
Unsupported(c) == c.kind # "Struct" \/ Len(c.type_params) > 0

DescriptorUnusable(c, v) == ~CoinInfoAt(c, v).present \/ ~CoinInfoAt(c, v).parses

CoinStorePath(r) ==
    r.resource_type = [address |-> 1, module |-> "Coin", name |-> "CoinStore",
                       type_params |-> r.resource_type.type_params]

NativeZeroAmount == Amount(<<"0">>, native_coin)

\* C1: in every reachable state no task that awaits a descriptor read holds
\* the cache's read or write guard; a read guard is held only at the map
\* lookup and the write guard only at the map insert.
LockNeverHeldAcrossAwait ==
    \A t \in Tasks :
        /\ pc[t] = "gc_await" => t \notin readers /\ writer # t
        /\ t \in readers => pc[t] = "gc_lookup"
        /\ writer = t => pc[t] = "gc_insert"

\* C1 witness: one task awaits its descriptor read while another holds a guard.
LockHeldBesideAwait ==
    \E t, u \in Tasks : pc[t] = "gc_await" /\ (u \in readers \/ writer = u)

\* C2: a get_currency call for a non-native type that starts when the type is
\* in the cache issues no descriptor read, never reaches get_currency_inner or
\* the insert, and returns the cached value, whatever its version argument.
CachedTypeNeverReadAgain ==
    \A t \in Tasks :
        (pc[t] # "idle" /\ coin[t] # native_coin_tag /\ startedCached[t]) =>
            /\ reads[t] = 0
            /\ pc[t] \in {"gc_read", "gc_lookup", "gc_ret"}
            /\ coin[t] \in DOMAIN currencies
            /\ pc[t] = "gc_ret" => result[t] = OkCurrency(currencies[coin[t]])

\* C2 witness: CoinA was cached, and a later call at version 1, where CoinA's
\* descriptor is absent, has returned.
CachedCallReturned ==
    \E t \in Tasks :
        /\ pc[t] = "gc_ret" /\ startedCached[t]
        /\ coin[t] = CoinA /\ version[t] = SomeVersion(1)
        /\ result[t].ok /\ result[t].val.some

\* C3: every get_currency call that returns a value for a non-native type
\* returns the value the cache holds for that type, so concurrent first-time
\* calls for one type all return the identical value, which is the cached one.
ConcurrentMissesAgree ==
    /\ \A t \in Tasks :
          (pc[t] = "gc_ret" /\ result[t].ok /\ coin[t] # native_coin_tag) =>
              /\ coin[t] \in DOMAIN currencies
              /\ currencies[coin[t]] = result[t].val
    /\ \A t, u \in Tasks :
          (pc[t] = "gc_ret" /\ pc[u] = "gc_ret" /\ result[t].ok /\ result[u].ok
              /\ coin[t] = coin[u]) => result[t] = result[u]

\* C3 witness: two tasks missed the cache for CoinA, both read the descriptor,
\* both inserted and returned.
TwoMissesReturned ==
    \E t, u \in Tasks :
        /\ t # u
        /\ pc[t] = "gc_ret" /\ pc[u] = "gc_ret"
        /\ coin[t] = CoinA /\ coin[u] = CoinA
        /\ ~startedCached[t] /\ ~startedCached[u]
        /\ reads[t] = 1 /\ reads[u] = 1
        /\ result[t].ok /\ result[u].ok

\* C4: a successful response to a request with a currency filter holds exactly
\* the distinct filter currencies, each once.
OnePerFilterCurrency ==
    \A t \in Clients :
        (pc[t] = "ab_done" /\ response[t].ok /\ req[t].currencies.some) =>
            LET out == response[t].val IN
            /\ {out[i].currency : i \in DOMAIN out} = Range(req[t].currencies.list)
            /\ \A i, j \in DOMAIN out : out[i].currency = out[j].currency => i = j

\* C4 witness: account 16 holds the native coin and CoinA, whose currencies
\* share symbol and decimals; both resolved and the filter asked for the
\* native currency.
FilteredAmongLookalikes ==
    \E t \in Clients :
        /\ pc[t] = "ab_done" /\ response[t].ok
        /\ req[t].address = 16
        /\ req[t].currencies = SomeFilter(<<native_coin>>)
        /\ Len(amounts[t]) = 2
        /\ response[t].val = <<Amount(<<"5">>, native_coin)>>

\* C5 as stated: a request with no filter whose account-resources read fails
\* or returns an empty list answers exactly one amount, "0" of the native
\* currency.
NoResourcesYieldNativeZero ==
    \A t \in Clients :
        (pc[t] = "ab_done" /\ ~req[t].currencies.some
            /\ (~resp[t].ok \/ Len(resp[t].inner) = 0)) =>
            response[t] = OkAmounts(<<NativeZeroAmount>>)

\* C5 amended: a request with no filter whose account-resources read fails
\* answers exactly one amount, "0" of the native currency; when the read
\* succeeds with an empty list the answer is the empty amount list.
FailedReadYieldsNativeZero ==
    \A t \in Clients :
        (pc[t] = "ab_done" /\ ~req[t].currencies.some) =>
            /\ ~resp[t].ok => response[t] = OkAmounts(<<NativeZeroAmount>>)
            /\ (resp[t].ok /\ Len(resp[t].inner) = 0) => response[t] = OkAmounts(<<>>)

\* C5 witness: an unknown account was asked for with no filter and answered.
UnknownAccountAnswered ==
    \E t \in Clients :
        /\ pc[t] = "ab_done" /\ ~req[t].currencies.some
        /\ ~resp[t].ok /\ resp[t].error = "NotFound"

\* The resources of a successful read that get_balances is to retain when
\* at least `least` and at most `most` type parameters are required.
Eligible(list, least, most) ==
    {i \in DOMAIN list :
        /\ CoinStorePath(list[i])
        /\ Len(list[i].resource_type.type_params) >= least
        /\ Len(list[i].resource_type.type_params) <= most
        /\ list[i].data.parses}

\* C6 as stated: every key of the balances comes from a coin-store resource
\* with exactly one type parameter.
OnlySingleParameterRetained ==
    \A t \in Tasks :
        (pc[t] = "ab_loop" /\ resp[t].ok) =>
            DOMAIN balances[t] =
                {resp[t].inner[i].resource_type.type_params[1] :
                    i \in Eligible(resp[t].inner, 1, 1)}

\* C6 amended: the keys of the balances are the first type parameters of the
\* coin-store resources that carry at least one type parameter and a payload
\* that parses, and each key's value is that of the last such resource; a
\* coin-store resource without type parameters gives no entry, one with two
\* or more is retained under its first.
FirstParameterRetained ==
    \A t \in Tasks :
        (pc[t] = "ab_loop" /\ resp[t].ok) =>
            LET list == resp[t].inner
                keep == Eligible(list, 1, MaxResources + 2)
                key(i) == list[i].resource_type.type_params[1]
            IN /\ DOMAIN balances[t] = {key(i) : i \in keep}
               /\ \A i \in keep :
                     (\A j \in keep : key(j) = key(i) => j <= i) =>
                         balances[t][key(i)] = list[i].data.value

\* C6 witness: the only resource is a coin store with two type parameters,
\* and it gave an entry.
TwoParameterStoreRetained ==
    \E t \in Tasks :
        /\ pc[t] = "ab_loop" /\ resp[t].ok
        /\ Len(resp[t].inner) = 1
        /\ Len(resp[t].inner[1].resource_type.type_params) = 2
        /\ DOMAIN balances[t] # {}

\* C7 as stated: a finished request whose balances hold a parameterless
\* struct type with an absent or unparsable descriptor at the balance version
\* ended in an error.
UnusableDescriptorFailsRequest ==
    \A t \in Clients :
        (pc[t] = "ab_done"
            /\ \E c \in DOMAIN balances[t] :
                  ~Unsupported(c) /\ DescriptorUnusable(c, req[t].balance_version)) =>
            ~response[t].ok

\* C7, the part that holds: once a request has read, at the balance version, the
\* descriptor of a coin type it did not find in the cache, and that descriptor
\* is absent or unparsable there, the request is over with an error and no
\* amounts, whatever else the account holds and whatever the filter.
UnusableDescriptorReadFailsRequest ==
    \A t \in Clients :
        (reads[t] = 1 /\ pc[t] # "gc_await"
            /\ DescriptorUnusable(coin[t], req[t].balance_version)) =>
            /\ pc[t] = "ab_done"
            /\ ~response[t].ok
            /\ response[t].val = <<>>

\* C7 witness: account 16 at version 1, filter on the native currency only:
\* the native amount was already collected when CoinA's descriptor was found
\* absent, and the request failed.
FailedDespiteFilter ==
    \E t \in Clients :
        /\ pc[t] = "ab_done" /\ ~response[t].ok
        /\ req[t].address = 16 /\ req[t].balance_version = 1
        /\ req[t].currencies = SomeFilter(<<native_coin>>)
        /\ coin[t] = CoinA /\ reads[t] = 1
        /\ Len(amounts[t]) = 1

\* C8: a get_currency call on the native coin type has returned the constant
\* native Currency as soon as it is entered, holds no guard, has issued no
\* read, and the native key is never in the cache.
NativeShortCircuits ==
    /\ native_coin_tag \notin DOMAIN currencies
    /\ \A t \in Tasks :
          (pc[t] # "idle" /\ coin[t] = native_coin_tag) =>
              /\ pc[t] = "gc_ret"
              /\ result[t] = OkCurrency(SomeCurrency(native_coin))
              /\ reads[t] = 0
              /\ t \notin readers /\ writer # t

\* C8 witness: a native call at version 1 returned while another task held
\* the write guard and CoinA was cached.
NativeReturnedUnderWriter ==
    \E t, u \in Tasks :
        /\ pc[t] = "gc_ret" /\ coin[t] = native_coin_tag
        /\ version[t] = SomeVersion(1)
        /\ writer = u
        /\ CoinA \in DOMAIN currencies

\* C9, the state part: a call on an unsupported type issues no read, returns
\* Ok(None) and leaves None in the cache; a call that found the key cached
\* never computes or inserts again; unsupported keys only ever map to None;
\* and the amounts hold one entry per supported coin visited, none for the
\* unsupported ones.
UnsupportedInv ==
    /\ \A c \in DOMAIN currencies : Unsupported(c) => currencies[c] = NoneCurrency
    /\ \A t \in Clients :
          /\ Unsupported(coin[t]) =>
                /\ reads[t] = 0
                /\ pc[t] # "gc_await"
                /\ startedCached[t] => pc[t] \notin {"gc_write", "gc_insert"}
                /\ pc[t] \in {"ab_loop", "ab_done"} =>
                      /\ result[t] = OkCurrency(NoneCurrency)
                      /\ coin[t] \in DOMAIN currencies
          /\ (pc[t] = "ab_loop" \/ (pc[t] = "ab_done" /\ response[t].ok)) =>
                Len(amounts[t]) =
                    Cardinality({c \in (DOMAIN balances[t]) \ todo[t] : ~Unsupported(c)})

\* C9, the step part: a None in the cache is never removed or replaced.
NoneKept ==
    \A c \in DOMAIN currencies :
        currencies[c] = NoneCurrency =>
            c \in DOMAIN currencies' /\ currencies'[c] = NoneCurrency

\* C9: a coin type that is not a struct type, or has type parameters of its
\* own, resolves to None without a descriptor read and without an error; the
\* None is cached, never replaced or recomputed, and the coin is left out of
\* the amounts.
UnsupportedResolvesToNone == []UnsupportedInv /\ [][NoneKept]_vars

\* C9 witness: a request for account 17 (two unsupported coin types) found
\* its last coin already cached as None and answered the empty list.
UnsupportedServedFromCache ==
    \E t \in Clients :
        /\ pc[t] = "ab_done" /\ response[t] = OkAmounts(<<>>)
        /\ req[t].address = 17 /\ ~req[t].currencies.some
        /\ resp[t].ok
        /\ Unsupported(coin[t]) /\ startedCached[t]

\* C10: get_balances never returns an error, and after a failed
\* account-resources read, of any kind, the balances are exactly the native
\* coin type with value 0.
GetBalancesNeverFails ==
    \A t \in Tasks :
        /\ pc[t] # "ab_done"
        /\ (pc[t] = "ab_loop" /\ ~resp[t].ok) =>
              balances[t] = [c \in {native_coin_tag} |-> 0]

\* C10 witness: get_balances returned after a transport failure.
FallbackAfterUnavailable ==
    \E t \in Tasks :
        pc[t] = "ab_loop" /\ ~resp[t].ok /\ resp[t].error = "Unavailable"

\* A step in which task t's own call leaves the cache as it is, or in which
\* the cache changes by the insert of another task that returns from it.
OnlyOthersInsert(t) ==
    currencies' # currencies =>
        \E u \in Tasks \ {t} :
            /\ pc[u] = "gc_insert" /\ pc'[u] = "gc_ret"
            /\ DOMAIN currencies' = (DOMAIN currencies) \cup {coin[u]}
            /\ \A k \in DOMAIN currencies : k # coin[u] => currencies'[k] = currencies[k]

\* C11, one step: a call is abandoned only at the await, which it reached from
\* the lookup's miss, which it reached from the read lock, which it reached
\* from its start; in none of these positions, nor once abandoned, does a step
\* of the call change the cache, and an abandoned call never resumes.
AbandonedCallStep ==
    \A t \in Tasks :
        /\ (pc'[t] = "gc_dropped" /\ pc[t] # "gc_dropped") => pc[t] = "gc_await"
        /\ (pc'[t] = "gc_await" /\ pc[t] # "gc_await") =>
              pc[t] = "gc_lookup" /\ coin[t] \notin DOMAIN currencies
        /\ (pc'[t] = "gc_lookup" /\ pc[t] # "gc_lookup") => pc[t] = "gc_read"
        /\ (pc'[t] = "gc_read" /\ pc[t] # "gc_read") => pc[t] = "idle"
        /\ pc[t] \in {"gc_read", "gc_lookup", "gc_await", "gc_dropped"} => OnlyOthersInsert(t)
        /\ pc[t] = "gc_dropped" =>
              /\ pc'[t] \in {"gc_dropped", "idle"}
              /\ t \notin readers /\ writer # t

\* C11: a get_currency call that missed the cache and is abandoned at its
\* await never inserts: from its start to its abandonment and after, the
\* cache changes only by the inserts of other tasks.
AbandonedMissNeverInserts == [][AbandonedCallStep]_vars

\* C11 witness: a call that missed the cache for CoinA was abandoned at its
\* descriptor read, and CoinA is in the cache by another task's insert.
AbandonedBesideInsert ==
    \E t \in Tasks :
        /\ pc[t] = "gc_dropped" /\ coin[t] = CoinA
        /\ ~startedCached[t] /\ reads[t] = 1
        /\ CoinA \in DOMAIN currencies /\ currencies[CoinA].some

\* A finished request none of whose reads failed in transport: the ledger
\* answered the account-resources read and every descriptor read.
LedgerAnswered(t) ==
    /\ pc[t] = "ab_done"
    /\ resp[t].ok
    /\ response[t].ok \/ response[t].err # "remote"

\* C12 as stated: two requests for the same (address, version, filter) that
\* the ledger answered give the same response, the same set of amounts or an
\* error both, whatever ran before or beside them and whatever the cache held
\* when each started.
SameRequestSameResponse ==
    \A t, u \in Tasks :
        (LedgerAnswered(t) /\ LedgerAnswered(u) /\ req[t] = req[u]) =>
            /\ response[t].ok = response[u].ok
            /\ Range(response[t].val) = Range(response[u].val)

\* C13: every remote read of a balance request carries the request's
\* balance version, the end_version of its block: the account-resources read
\* in flight and every descriptor read in flight are pinned to it, and what
\* they returned is the ledger's state at that version, never at the head.
ReadsPinnedToBalanceVersion ==
    \A t \in Clients :
        LET v == req[t].balance_version
        IN /\ pc[t] \in {"ab_fetch", "gc_await"} => version[t] = [some |-> TRUE, v |-> v]
           /\ (pc[t] = "ab_fetched" /\ resp[t].ok) =>
                 KnownAt(req[t].address, v) /\ resp[t].inner = ResourcesAt(req[t].address, v)
           /\ (req[t].active /\ reads[t] = 1 /\ pc[t] \in {"gc_write", "gc_insert"}) =>
                 /\ CoinInfoAt(coin[t], v).present /\ CoinInfoAt(coin[t], v).parses
                 /\ currency[t].cur.symbol = CoinInfoAt(coin[t], v).symbol
                 /\ currency[t].cur.decimals = CoinInfoAt(coin[t], v).decimals

\* C13 witness: a request at version 1, below the head, awaits the descriptor
\* read of CoinA after its account-resources read was answered.
DescriptorReadBelowHead ==
    \E t \in Clients :
        /\ pc[t] = "gc_await" /\ coin[t] = CoinA /\ reads[t] = 1
        /\ req[t].balance_version = 1 /\ MaxVersion > 1
        /\ resp[t].ok

\* C14: a successful response to a request with a filter is, as a set keyed
\* by currency, the amounts of the held currencies that the filter names,
\* each with the held value, and an amount "0" for every filter currency that
\* is not held; no currency outside the filter appears.
FilterProjectsHeldAndZeroes ==
    \A t \in Clients :
        (pc[t] = "ab_done" /\ response[t].ok /\ req[t].currencies.some) =>
            LET out == Range(response[t].val)
                held == Range(amounts[t])
                asked == Range(req[t].currencies.list)
                missing == {f \in asked : \A a \in held : a.currency # f}
            IN /\ out = {a \in held : a.currency \in asked}
                           \cup {[value |-> <<"0">>, currency |-> f] : f \in missing}
               /\ \A a, b \in out : a.currency = b.currency => a = b

\* C14 witness: account 16 holds 10 of CoinA and 5 of the native coin; asked
\* for CoinA's currency and a currency nobody holds, the answer is 10 of the
\* first and 0 of the second.
HeldAndZeroAnswered ==
    \E t \in Clients :
        /\ pc[t] = "ab_done" /\ response[t].ok
        /\ req[t].address = 16
        /\ Range(req[t].currencies.list) = {CurrencyA, CurrencyX}
        /\ Range(response[t].val) =
              {[value |-> <<"1", "0">>, currency |-> CurrencyA],
               [value |-> <<"0">>, currency |-> CurrencyX]}

\* C15: when the resources read holds a coin-store resource whose payload
\* does not parse, get_balances still succeeds, every coin-store resource
\* with a type parameter and a payload that parses has its entry (with its
\* value, unless a later resource of the same coin type replaces it), and the
\* unparsable resource gives none.
MalformedDroppedAlone ==
    \A t \in Tasks :
        LET list == resp[t].inner
            malformed == {i \in DOMAIN list : CoinStorePath(list[i]) /\ ~list[i].data.parses}
            wellFormed == Eligible(list, 1, MaxResources + 2)
            key(i) == list[i].resource_type.type_params[1]
        IN (pc[t] \in {"ab_loop", "ab_done"} /\ resp[t].ok /\ malformed # {}) =>
              /\ pc[t] = "ab_loop"
              /\ \A i \in wellFormed :
                    /\ key(i) \in DOMAIN balances[t]
                    /\ (\A j \in wellFormed : key(j) = key(i) => j <= i) =>
                          balances[t][key(i)] = list[i].data.value
              /\ \A k \in DOMAIN balances[t] : \E i \in wellFormed : key(i) = k

\* C15 witness: an unparsable coin store of CoinA came before a coin store
\* of the native coin holding 10, and the balances are the native 10 alone.
NativeKeptBesideMalformed ==
    \E t \in Tasks :
        /\ pc[t] = "ab_loop" /\ resp[t].ok /\ Len(resp[t].inner) = 2
        /\ resp[t].inner[1].resource_type.type_params = <<CoinA>>
        /\ CoinStorePath(resp[t].inner[1]) /\ ~resp[t].inner[1].data.parses
        /\ CoinStorePath(resp[t].inner[2]) /\ resp[t].inner[2].data.parses
        /\ balances[t] = [c \in {native_coin_tag} |-> 10]

\* The number a decimal string denotes, -1 if it is not one.
RECURSIVE DecimalValue(_)
DecimalValue(str) ==
    LET digits == <<"0", "1", "2", "3", "4", "5", "6", "7", "8", "9">>
        last == str[Len(str)]
        rest == SubSeq(str, 1, Len(str) - 1)
    IN IF Len(str) = 0 \/ \A d \in 1..10 : digits[d] # last THEN -1
       ELSE IF Len(str) = 1 THEN (CHOOSE d \in 1..10 : digits[d] = last) - 1
       ELSE IF rest[1] = "0" \/ DecimalValue(rest) < 0 THEN -1
       ELSE 10 * DecimalValue(rest) + (CHOOSE d \in 1..10 : digits[d] = last) - 1

\* The Currency a supported coin type stands for: the native constant, or the
\* symbol and decimals of the type's descriptor with the descriptor's path.
CurrencyFor(c) ==
    IF c = native_coin_tag
    THEN [symbol |-> "TC", decimals |-> 6, metadata |-> [some |-> FALSE, move_type |-> <<>>]]
    ELSE [symbol |-> CoinInfoAt(c, MaxVersion).symbol,
          decimals |-> CoinInfoAt(c, MaxVersion).decimals,
          metadata |-> [some |-> TRUE,
                        move_type |-> <<"0x1::Coin::CoinInfo", c.address, c.module, c.name>>]]

\* C16: a successful response to a request without a filter holds exactly
\* one amount for each coin type of the balances whose currency resolved to
\* Some, with the balance's value in decimal and that currency, and nothing
\* for the coin types that resolved to None.
UnfilteredEmitsResolved ==
    \A t \in Clients :
        (pc[t] = "ab_done" /\ response[t].ok /\ ~req[t].currencies.some) =>
            LET out == response[t].val
                resolved == {c \in DOMAIN balances[t] : ~Unsupported(c)}
            IN /\ Len(out) = Cardinality(resolved)
               /\ \A c \in resolved :
                     \E i \in DOMAIN out :
                         /\ out[i].currency = CurrencyFor(c)
                         /\ DecimalValue(out[i].value) = balances[t][c]

\* C16 witness: the account with 12 of the native coin and 3 of an
\* unsupported coin type is answered with the native 12 alone.
NativeAloneOfMixedAccount ==
    \E t \in Clients :
        /\ pc[t] = "ab_done" /\ req[t].address = MixedAddress
        /\ resp[t].ok /\ Cardinality(DOMAIN balances[t]) = 2
        /\ response[t] = [ok |-> TRUE, err |-> "",
                           val |-> <<[value |-> <<"1", "2">>, currency |-> native_coin]>>]

\* C17, one step: every entry of the cache is still there, with the same
\* value, after the step.
EntriesKept ==
    \A k \in DOMAIN currencies : k \in DOMAIN currencies' /\ currencies'[k] = currencies[k]

\* C17: the cache only grows: no step removes an entry or changes the value
\* of a key, so an insert over an existing key, by a concurrent miss with
\* whatever version argument, writes the value that is there.
CacheOnlyGrows == [][EntriesKept]_vars

\* C17 witness: two calls missed the cache for CoinA, one with no version
\* and one with the head version; both read the descriptor, both inserted,
\* the second over the first's entry.
InsertedOverEntry ==
    \E t, u \in Tasks :
        /\ pc[t] = "gc_ret" /\ pc[u] = "gc_ret"
        /\ coin[t] = CoinA /\ coin[u] = CoinA
        /\ version[t] = [some |-> FALSE, v |-> 0]
        /\ version[u] = [some |-> TRUE, v |-> MaxVersion]
        /\ ~startedCached[t] /\ ~startedCached[u]
        /\ result[t].ok /\ result[u].ok
        /\ CoinA \in DOMAIN currencies

\* C18, the state part: a task that holds a guard is at the lookup or at the
\* insert, which run without waiting; it never waits for a descriptor read
\* or for the lock.
HoldersNeverWait ==
    \A u \in Tasks :
        (u \in readers \/ writer = u) =>
            /\ pc[u] \in {"gc_lookup", "gc_insert"}
            /\ pc[u] \notin {"gc_read", "gc_write", "gc_await"}
            /\ u \in readers => writer = 0

\* C18: concurrent get_currency calls on the same or on different types
\* never deadlock: under fair scheduling, with every descriptor read
\* returning, every call returns a result or an error, and no task waits for
\* the lock while its holder waits for that task or for a remote read.
EveryCallReturns ==
    /\ []HoldersNeverWait
    /\ \A t \in Tasks : (pc[t] \notin {"idle", "gc_ret"}) ~> (pc[t] = "gc_ret")

\* C18 witness: a task waits for the write guard to insert CoinA while
\* another task holds the read guard for its lookup of CoinA.
WriterWaitsForReader ==
    \E t, u \in Tasks :
        /\ t # u
        /\ pc[t] = "gc_write" /\ coin[t] = CoinA
        /\ u \in readers /\ coin[u] = CoinA

\* C19, one step: a call's result becomes an error only at the return of its
\* descriptor read, and that step leaves the cache as it is; a lookup that
\* misses a parameterless struct type issues the descriptor read.
ErrorStepKeepsCache ==
    \A t \in Tasks :
        /\ (pc[t] # "gc_ret" /\ pc'[t] = "gc_ret" /\ ~result'[t].ok) =>
              /\ pc[t] = "gc_await"
              /\ currencies' = currencies
        /\ (pc[t] = "gc_lookup" /\ pc'[t] # "gc_lookup"
                /\ coin[t] \notin DOMAIN currencies /\ ~Unsupported(coin[t])) =>
              pc'[t] = "gc_await" /\ reads'[t] = 1

\* C19, the state part: a call that returned an error missed the cache, read
\* the descriptor once, and never held the write guard.
ErrorCallInv ==
    \A t \in Tasks :
        (pc[t] = "gc_ret" /\ ~result[t].ok) =>
            /\ ~startedCached[t] /\ reads[t] = 1
            /\ ~Unsupported(coin[t])
            /\ writer # t /\ t \notin readers

\* C19: a get_currency call that ends in an error inserts nothing, so the
\* type stays out of the cache and a later call for it misses and reads the
\* descriptor again.
ErrorLeavesCache == []ErrorCallInv /\ [][ErrorStepKeepsCache]_vars

\* C19 witness: a call for CoinB, whose descriptor does not parse, returned
\* its error; CoinB is not in the cache, and another call for CoinB has
\* missed and awaits the descriptor read.
FailedTypeReadAgain ==
    \E t, u \in Tasks :
        /\ pc[u] = "gc_ret" /\ ~result[u].ok /\ coin[u] = CoinB
        /\ result[u].err = "CoinInfo failed to deserialize"
        /\ CoinB \notin DOMAIN currencies
        /\ pc[t] = "gc_await" /\ coin[t] = CoinB /\ reads[t] = 1

\* C20: every cache entry is consistent with its key: a key mapped to None
\* is a non-struct type or a struct type with type parameters; a key mapped
\* to Some(c) is a parameterless struct type other than the native coin, and
\* c has the symbol and the decimals of the type's descriptor, present and
\* parsable at some version of the ledger, and the descriptor's path.
EntriesMatchKeys ==
    \A k \in DOMAIN currencies :
        IF currencies[k].some
        THEN /\ k.kind = "Struct" /\ Len(k.type_params) = 0
             /\ k # native_coin_tag
             /\ \E v \in Versions :
                   /\ CoinInfoAt(k, v).present /\ CoinInfoAt(k, v).parses
                   /\ currencies[k].cur.symbol = CoinInfoAt(k, v).symbol
                   /\ currencies[k].cur.decimals = CoinInfoAt(k, v).decimals
             /\ currencies[k].cur.metadata =
                   [some |-> TRUE,
                    move_type |-> <<"0x1::Coin::CoinInfo", k.address, k.module, k.name>>]
        ELSE k.kind # "Struct" \/ Len(k.type_params) > 0

\* C20 witness: the cache holds CoinA's currency and None for both
\* unsupported types, and a request for the account that holds CoinB, whose
\* descriptor does not parse, has failed without leaving an entry.
CacheHoldsSomeAndNone ==
    /\ DOMAIN currencies = {CoinA, CoinG, U64Tag}
    /\ currencies[CoinA].some
    /\ \E t \in Clients :
          /\ pc[t] = "ab_done" /\ req[t].address = 18
          /\ response[t].err = "CoinInfo failed to deserialize"

====
